---- MODULE Spec2Model ----
(***************************************************************************)
(* Model of scylla-cql/src/types/deserialize/value.rs: the DeserializeValue *)
(* trait (type_check / deserialize) and its built-in implementations.       *)
(*                                                                          *)
(* A cell is a column type descriptor `typ` and an optional frame slice     *)
(* `v`.  A caller in state "idle" invokes type_check or deserialize of one  *)
(* target type on the cell; the outcome is held in `result`, the            *)
(* implementations entered during the call in `calls`, until the caller     *)
(* takes the result and returns to "idle".                                  *)
(*                                                                          *)
(* SpecCallers has several callers at once over the cells of one row: each  *)
(* caller invokes a method on a cell, the method completes some time later, *)
(* and the caller takes the result; the steps of the callers interleave.    *)
(* `row` holds the cells, `threads` each caller's call, and `alone` what    *)
(* each call gives on each cell when nothing else is in flight.             *)
(*                                                                          *)
(* Bytes are naturals 0..255.  Integers wider than TLC's machine integers   *)
(* (i64, and the unsigned view of i32) are kept as sign and magnitude: a    *)
(* record [neg, mag] whose mag is the big-endian base-256 magnitude without *)
(* leading zeros.  The feature-gated num-bigint / bigdecimal bindings       *)
(* (cfg(feature = ...)) are not part of the default build and not modelled. *)
(***************************************************************************)
EXTENDS Integers, Sequences, FiniteSets, TLC

VARIABLES typ, v, op, target, result, calls, row, threads, alone

vars == <<typ, v, op, target, result, calls, row, threads, alone>>

(***************************************************************************)
(* Bounds of the explored inputs.                                           *)
(***************************************************************************)
\* every byte sequence over ByteSample up to this length is a slot
MaxLen == 2
\* constant-fill slots are explored up to this length (past the widest type)
MaxWide == 9
\* callers issuing calls at the same time
NumCallers == 2

\* 0x00, 'A', 0x80 (lone continuation byte), 0xA9, 0xC3 (2-byte lead), 0xFF
ByteSample == {0, 65, 128, 169, 195, 255}

Range(s) == {s[i] : i \in 1..Len(s)}

SeqsUpTo(S, n) == UNION {[1..k -> S] : k \in 0..n}

Fill(b, n) == [i \in 1..n |-> b]

(***************************************************************************)
(* ColumnType: the descriptor tags the implementations name, and two tags   *)
(* no built-in strict type accepts.                                         *)
(***************************************************************************)
ColumnTypes ==
    {"Ascii", "Boolean", "Blob", "Counter", "Decimal", "Double", "Float",
     "Int", "BigInt", "Text", "SmallInt", "TinyInt", "Varint",
     "Timestamp", "Uuid"}

(***************************************************************************)
(* Option<FrameSlice>: None is protocol NULL, Some(slice) may be empty.     *)
(***************************************************************************)
None == [present |-> FALSE, bytes |-> <<>>]

Some(bs) == [present |-> TRUE, bytes |-> bs]

(***************************************************************************)
(* Byte arithmetic.                                                         *)
(***************************************************************************)
RECURSIVE Strip(_)
\* drop leading zero bytes
Strip(s) == IF s = <<>> THEN <<>>
            ELSE IF Head(s) = 0 THEN Strip(Tail(s)) ELSE s

Front(s) == SubSeq(s, 1, Len(s) - 1)

Last(s) == s[Len(s)]

RECURSIVE AddOne(_)
\* s + 1 modulo 256^Len(s)
AddOne(s) == IF s = <<>> THEN <<>>
             ELSE IF Last(s) = 255 THEN Append(AddOne(Front(s)), 0)
             ELSE Append(Front(s), Last(s) + 1)

\* two's-complement negation at the width of s
TwosNeg(s) == AddOne([i \in 1..Len(s) |-> 255 - s[i]])

PadTo(mag, w) == Fill(0, w - Len(mag)) \o mag

\* <int>::to_be_bytes at width w, of a sign-magnitude integer
to_be_bytes(x, w) ==
    IF x.neg THEN TwosNeg(PadTo(x.mag, w)) ELSE PadTo(x.mag, w)

\* from_be_bytes reading the bytes as unsigned
from_be_bytes_unsigned(arr) == [neg |-> FALSE, mag |-> Strip(arr)]

\* <int>::from_be_bytes: big-endian two's complement to sign and magnitude
from_be_bytes(arr) ==
    IF arr # <<>> /\ arr[1] >= 128
    THEN [neg |-> TRUE, mag |-> Strip(TwosNeg(arr))]
    ELSE [neg |-> FALSE, mag |-> Strip(arr)]

\* <float>::from_be_bytes: the IEEE-754 bit pattern, kept as its magnitude
float_from_be_bytes(arr) == [neg |-> FALSE, mag |-> Strip(arr)]

RECURSIVE MagToInt(_)
MagToInt(mag) == IF mag = <<>> THEN 0
                 ELSE MagToInt(Front(mag)) * 256 + Last(mag)

\* the machine integer of a sign-magnitude integer below 2^31
ToInt(x) == IF x.neg THEN 0 - MagToInt(x.mag) ELSE MagToInt(x.mag)

(***************************************************************************)
(* UTF-8, as std::str::from_utf8 validates it and as str stores it.         *)
(* A str is modelled by its sequence of Unicode scalar values.              *)
(***************************************************************************)
\* <[u8]>::is_ascii
is_ascii(s) == \A i \in 1..Len(s) : s[i] < 128

IsCont(b) == b >= 128 /\ b <= 191

\* length of the sequence a lead byte announces, 0 for a byte that leads none
Utf8Width(b) ==
    IF b < 128 THEN 1
    ELSE IF b >= 194 /\ b <= 223 THEN 2
    ELSE IF b >= 224 /\ b <= 239 THEN 3
    ELSE IF b >= 240 /\ b <= 244 THEN 4
    ELSE 0

\* the second byte excludes overlong forms, surrogates and values > 0x10FFFF
SecondOk(b1, b2) ==
    IF b1 = 224 THEN b2 >= 160 /\ b2 <= 191
    ELSE IF b1 = 237 THEN b2 >= 128 /\ b2 <= 159
    ELSE IF b1 = 240 THEN b2 >= 144 /\ b2 <= 191
    ELSE IF b1 = 244 THEN b2 >= 128 /\ b2 <= 143
    ELSE IsCont(b2)

Utf8Scalar(s, w) ==
    IF w = 1 THEN s[1]
    ELSE IF w = 2 THEN (s[1] - 192) * 64 + (s[2] - 128)
    ELSE IF w = 3 THEN (s[1] - 224) * 4096 + (s[2] - 128) * 64 + (s[3] - 128)
    ELSE (s[1] - 240) * 262144 + (s[2] - 128) * 4096
         + (s[3] - 128) * 64 + (s[4] - 128)

RECURSIVE from_utf8(_)
\* std::str::from_utf8: [valid, chars]
from_utf8(s) ==
    IF s = <<>> THEN [valid |-> TRUE, chars |-> <<>>]
    ELSE LET w == Utf8Width(s[1]) IN
         IF w = 0 \/ Len(s) < w THEN [valid |-> FALSE, chars |-> <<>>]
         ELSE IF w >= 2 /\ ~SecondOk(s[1], s[2])
              THEN [valid |-> FALSE, chars |-> <<>>]
         ELSE IF w >= 3 /\ ~IsCont(s[3]) THEN [valid |-> FALSE, chars |-> <<>>]
         ELSE IF w = 4 /\ ~IsCont(s[4]) THEN [valid |-> FALSE, chars |-> <<>>]
         ELSE LET rest == from_utf8(SubSeq(s, w + 1, Len(s))) IN
              [valid |-> rest.valid,
               chars |-> IF rest.valid THEN <<Utf8Scalar(s, w)>> \o rest.chars
                         ELSE <<>>]

EncodeScalar(c) ==
    IF c < 128 THEN <<c>>
    ELSE IF c < 2048 THEN <<192 + (c \div 64), 128 + (c % 64)>>
    ELSE IF c < 65536
         THEN <<224 + (c \div 4096), 128 + ((c \div 64) % 64), 128 + (c % 64)>>
    ELSE <<240 + (c \div 262144), 128 + ((c \div 4096) % 64),
           128 + ((c \div 64) % 64), 128 + (c % 64)>>

RECURSIVE as_bytes(_)
\* str::as_bytes: the UTF-8 encoding of a string
as_bytes(chars) ==
    IF chars = <<>> THEN <<>>
    ELSE EncodeScalar(Head(chars)) \o as_bytes(Tail(chars))

(***************************************************************************)
(* Target types.  A target is the sequence of its type constructors,        *)
(* outermost first: <<"Option", "MaybeEmpty", "i32">> is                    *)
(* Option<MaybeEmpty<i32>>.  "slice" is &[u8], "str" is &str.               *)
(***************************************************************************)
FixedNumeric == {"i8", "i16", "i32", "i64", "f32", "f64"}

\* the types impl_emptiable_strict_type! marks Emptiable
EmptiableTypes == {"bool", "CqlVarint", "CqlDecimal"} \cup FixedNumeric

StrictTypes ==
    EmptiableTypes \cup {"slice", "Vec", "Bytes", "str", "String", "Counter"}

BaseTypes == StrictTypes \cup {"CqlValue"}

Targets ==
    {<<b>> : b \in BaseTypes}
    \cup {<<"Option", b>> : b \in BaseTypes}
    \cup {<<"MaybeEmpty", b>> : b \in EmptiableTypes}
    \cup {<<"Option", "MaybeEmpty", b>> : b \in EmptiableTypes}

\* std::mem::size_of::<$t>()
size_of(t) ==
    CASE t = "i8" -> 1
      [] t = "i16" -> 2
      [] t = "i32" -> 4
      [] t = "i64" -> 8
      [] t = "f32" -> 4
      [] t = "f64" -> 8

\* the [$($cql)|+] list each impl_strict_type! invocation passes
cql_list(t) ==
    CASE t = "bool" -> <<"Boolean">>
      [] t = "i8" -> <<"TinyInt">>
      [] t = "i16" -> <<"SmallInt">>
      [] t = "i32" -> <<"Int">>
      [] t = "i64" -> <<"BigInt", "Counter">>
      [] t = "f32" -> <<"Float">>
      [] t = "f64" -> <<"Double">>
      [] t = "CqlVarint" -> <<"Varint">>
      [] t = "CqlDecimal" -> <<"Decimal">>
      [] t \in {"slice", "Vec", "Bytes"} -> <<"Blob">>
      [] t \in {"str", "String"} -> <<"Ascii", "Text">>
      [] t = "Counter" -> <<"Counter">>

(***************************************************************************)
(* Results.  Every outcome is one record shape: tag "Ok" or "Err"; for Ok,  *)
(* `wrap` lists the enclosing variants outermost first (Some, None, Value,  *)
(* Empty) and `kind` names the payload; for Err, `kind` is the error kind   *)
(* and rust_name / cql_type its context.                                    *)
(***************************************************************************)
Blank ==
    [tag |-> "Ok", wrap |-> <<>>, kind |-> "unit", truth |-> FALSE,
     neg |-> FALSE, mag |-> <<>>, bytes |-> <<>>, chars |-> <<>>,
     expected |-> <<>>, size |-> 0, got |-> 0, parse_err |-> "",
     rust_name |-> <<>>, cql_type |-> ""]

NoResult == [Blank EXCEPT !.tag = "NoCall"]

Ok(kind) == [Blank EXCEPT !.kind = kind]

OkInt(kind, x) == [Blank EXCEPT !.kind = kind, !.neg = x.neg, !.mag = x.mag]

mk_typck_err(T, cql_type, expected) ==
    [Blank EXCEPT !.tag = "Err", !.kind = "MismatchedType",
                  !.expected = expected,
                  !.rust_name = T, !.cql_type = cql_type]

mk_deser_err(T, cql_type, kind) ==
    [Blank EXCEPT !.tag = "Err", !.kind = kind,
                  !.rust_name = T, !.cql_type = cql_type]

(***************************************************************************)
(* Utilities.  A utility returns [ok, val, err].                            *)
(***************************************************************************)
\* ensure_not_null_frame_slice taking NULL for an empty slice
ensure_not_null_frame_slice_lax(T, t, s) ==
    [ok |-> TRUE, val |-> s.bytes, err |-> Blank]

ensure_not_null_frame_slice(T, t, s) ==
    IF s.present
    THEN [ok |-> TRUE, val |-> s.bytes, err |-> Blank]
    ELSE [ok |-> FALSE, val |-> <<>>,
          err |-> mk_deser_err(T, t, "ExpectedNonNull")]

\* frame_slice.as_slice()
ensure_not_null_slice(T, t, s) == ensure_not_null_frame_slice(T, t, s)

\* frame_slice.to_bytes()
ensure_not_null_owned(T, t, s) == ensure_not_null_frame_slice(T, t, s)

\* ensure_exact_length taking the first SIZE bytes of a longer slice
ensure_exact_length_prefix(T, SIZE, t, val) ==
    IF Len(val) >= SIZE
    THEN [ok |-> TRUE, val |-> SubSeq(val, 1, SIZE), err |-> Blank]
    ELSE [ok |-> FALSE, val |-> <<>>,
          err |-> [mk_deser_err(T, t, "ByteLengthMismatch")
                     EXCEPT !.size = SIZE, !.got = Len(val)]]

ensure_exact_length(T, SIZE, t, val) ==
    IF Len(val) = SIZE
    THEN [ok |-> TRUE, val |-> val, err |-> Blank]
    ELSE [ok |-> FALSE, val |-> <<>>,
          err |-> [mk_deser_err(T, t, "ByteLengthMismatch")
                     EXCEPT !.size = SIZE, !.got = Len(val)]]

\* check_ascii that never rejects
check_ascii_never(T, t, s) == [ok |-> TRUE, val |-> s, err |-> Blank]

\* check_ascii applied whatever the descriptor
check_ascii_always(T, t, s) ==
    IF ~is_ascii(s)
    THEN [ok |-> FALSE, val |-> <<>>,
          err |-> mk_deser_err(T, t, "ExpectedAscii")]
    ELSE [ok |-> TRUE, val |-> s, err |-> Blank]

\* check_ascii applied to every descriptor but Text
check_ascii_nontext(T, t, s) ==
    IF t # "Text" /\ ~is_ascii(s)
    THEN [ok |-> FALSE, val |-> <<>>,
          err |-> mk_deser_err(T, t, "ExpectedAscii")]
    ELSE [ok |-> TRUE, val |-> s, err |-> Blank]

check_ascii(T, t, s) ==
    IF t = "Ascii" /\ ~is_ascii(s)
    THEN [ok |-> FALSE, val |-> <<>>,
          err |-> mk_deser_err(T, t, "ExpectedAscii")]
    ELSE [ok |-> TRUE, val |-> s, err |-> Blank]

(***************************************************************************)
(* Collaborators outside this file.                                         *)
(***************************************************************************)
\* types::read_int: a big-endian i32 off the front of the buffer
read_int(buf) ==
    IF Len(buf) < 4
    THEN [ok |-> FALSE, val |-> from_be_bytes(<<>>), rest |-> buf]
    ELSE [ok |-> TRUE, val |-> from_be_bytes(SubSeq(buf, 1, 4)),
          rest |-> SubSeq(buf, 5, Len(buf))]

\* CqlVarint::from_signed_bytes_be_slice: keeps the bytes as they are
from_signed_bytes_be_slice(val) == [Ok("CqlVarint") EXCEPT !.bytes = val]

\* CqlDecimal::from_signed_be_bytes_slice_and_exponent: keeps the bytes of
\* the unscaled integer as they are, beside the scale
from_signed_be_bytes_slice_and_exponent(val, scale) ==
    [OkInt("CqlDecimal", scale) EXCEPT !.bytes = val]

\* the widths of the fixed-width CQL types
cql_width(t) ==
    CASE t \in {"Boolean", "TinyInt"} -> 1
      [] t = "SmallInt" -> 2
      [] t \in {"Int", "Float"} -> 4
      [] t \in {"BigInt", "Counter", "Double", "Timestamp"} -> 8
      [] t = "Uuid" -> 16
      [] OTHER -> 0

\* deser_cql_value: the generic parser keyed by the descriptor; it returns
\* a dynamically tagged value or its own ParseError
deser_cql_value(t, buf) ==
    IF \/ cql_width(t) # 0 /\ Len(buf) # cql_width(t)
       \/ t = "Decimal" /\ Len(buf) < 4
    THEN [ok |-> FALSE, val |-> Blank, err |-> "BadLength"]
    ELSE IF \/ t \in {"Ascii", "Text"} /\ ~from_utf8(buf).valid
            \/ t = "Ascii" /\ ~is_ascii(buf)
    THEN [ok |-> FALSE, val |-> Blank, err |-> "BadText"]
    ELSE [ok |-> TRUE,
          val |-> [Ok("CqlValue") EXCEPT !.bytes = buf, !.cql_type = t],
          err |-> ""]

(***************************************************************************)
(* The $conv closures of the impl_strict_type! invocations.  T is Self.     *)
(***************************************************************************)
deserialize_bool(T, t, s) ==
    LET val == ensure_not_null_slice(T, t, s) IN
    IF ~val.ok THEN val.err
    ELSE LET arr == ensure_exact_length(T, 1, t, val.val) IN
         IF ~arr.ok THEN arr.err
         ELSE [Ok("bool") EXCEPT !.truth = (arr.val[1] # 0)]

deserialize_fixed_numeric(T, t, s) ==
    LET val == ensure_not_null_slice(T, t, s) IN
    IF ~val.ok THEN val.err
    ELSE LET arr == ensure_exact_length(T, size_of(T[1]), t, val.val) IN
         IF ~arr.ok THEN arr.err
         ELSE IF T[1] \in {"f32", "f64"}
              THEN OkInt(T[1], float_from_be_bytes(arr.val))
              ELSE OkInt(T[1], from_be_bytes(arr.val))

\* CqlVarint held to the width of a bigint
deserialize_CqlVarint_fixed(T, t, s) ==
    LET val == ensure_not_null_slice(T, t, s) IN
    IF ~val.ok THEN val.err
    ELSE LET arr == ensure_exact_length(T, 8, t, val.val) IN
         IF ~arr.ok THEN arr.err
         ELSE from_signed_bytes_be_slice(arr.val)

deserialize_CqlVarint(T, t, s) ==
    LET val == ensure_not_null_slice(T, t, s) IN
    IF ~val.ok THEN val.err
    ELSE from_signed_bytes_be_slice(val.val)

\* CqlDecimal built from the whole slice, the scale's bytes included
deserialize_CqlDecimal_whole(T, t, s) ==
    LET val == ensure_not_null_slice(T, t, s) IN
    IF ~val.ok THEN val.err
    ELSE LET scale == read_int(val.val) IN
         IF ~scale.ok
         THEN [mk_deser_err(T, t, "GenericParseError")
                 EXCEPT !.parse_err = "IoError"]
         ELSE from_signed_be_bytes_slice_and_exponent(val.val, scale.val)

deserialize_CqlDecimal(T, t, s) ==
    LET val == ensure_not_null_slice(T, t, s) IN
    IF ~val.ok THEN val.err
    ELSE LET scale == read_int(val.val) IN
         IF ~scale.ok
         THEN [mk_deser_err(T, t, "GenericParseError")
                 EXCEPT !.parse_err = "IoError"]
         ELSE from_signed_be_bytes_slice_and_exponent(scale.rest, scale.val)

deserialize_slice(T, t, s) ==
    LET val == ensure_not_null_slice(T, t, s) IN
    IF ~val.ok THEN val.err
    ELSE [Ok("slice") EXCEPT !.bytes = val.val]

\* Vec<u8> refusing an empty blob
deserialize_Vec_nonempty(T, t, s) ==
    LET val == ensure_not_null_slice(T, t, s) IN
    IF ~val.ok THEN val.err
    ELSE IF val.val = <<>> THEN mk_deser_err(T, t, "ExpectedNonNull")
    ELSE [Ok("Vec") EXCEPT !.bytes = val.val]

deserialize_Vec(T, t, s) ==
    LET val == ensure_not_null_slice(T, t, s) IN
    IF ~val.ok THEN val.err
    ELSE [Ok("Vec") EXCEPT !.bytes = val.val]

deserialize_Bytes(T, t, s) ==
    LET val == ensure_not_null_owned(T, t, s) IN
    IF ~val.ok THEN val.err
    ELSE [Ok("Bytes") EXCEPT !.bytes = val.val]

deserialize_str(T, t, s) ==
    LET val == ensure_not_null_slice(T, t, s) IN
    IF ~val.ok THEN val.err
    ELSE LET a == check_ascii(T, t, val.val) IN
         IF ~a.ok THEN a.err
         ELSE LET u == from_utf8(val.val) IN
              IF ~u.valid THEN mk_deser_err(T, t, "InvalidUtf8")
              ELSE [Ok("str") EXCEPT !.chars = u.chars]

deserialize_String(T, t, s) ==
    LET val == ensure_not_null_slice(T, t, s) IN
    IF ~val.ok THEN val.err
    ELSE LET a == check_ascii(T, t, val.val) IN
         IF ~a.ok THEN a.err
         ELSE LET u == from_utf8(val.val) IN
              IF ~u.valid THEN mk_deser_err(T, t, "InvalidUtf8")
              ELSE [Ok("String") EXCEPT !.chars = u.chars]

deserialize_Counter(T, t, s) ==
    LET val == ensure_not_null_slice(T, t, s) IN
    IF ~val.ok THEN val.err
    ELSE LET arr == ensure_exact_length(T, 8, t, val.val) IN
         IF ~arr.ok THEN arr.err
         ELSE OkInt("Counter", from_be_bytes(arr.val))

\* CqlValue dropping the parser's error for a fixed one
deserialize_CqlValue_opaque(T, t, s) ==
    LET val == ensure_not_null_slice(T, t, s) IN
    IF ~val.ok THEN val.err
    ELSE LET cql == deser_cql_value(t, val.val) IN
         IF ~cql.ok
         THEN [mk_deser_err(T, t, "GenericParseError")
                 EXCEPT !.parse_err = "BadLength"]
         ELSE cql.val

\* impl DeserializeValue for CqlValue
deserialize_CqlValue(T, t, s) ==
    LET val == ensure_not_null_slice(T, t, s) IN
    IF ~val.ok THEN val.err
    ELSE LET cql == deser_cql_value(t, val.val) IN
         IF ~cql.ok
         THEN [mk_deser_err(T, t, "GenericParseError")
                 EXCEPT !.parse_err = cql.err]
         ELSE cql.val

\* the deserialize of impl_strict_type!: $conv(typ, v)
deserialize_strict(T, t, s) ==
    CASE T[1] = "bool" -> deserialize_bool(T, t, s)
      [] T[1] \in FixedNumeric -> deserialize_fixed_numeric(T, t, s)
      [] T[1] = "CqlVarint" -> deserialize_CqlVarint(T, t, s)
      [] T[1] = "CqlDecimal" -> deserialize_CqlDecimal(T, t, s)
      [] T[1] = "slice" -> deserialize_slice(T, t, s)
      [] T[1] = "Vec" -> deserialize_Vec(T, t, s)
      [] T[1] = "Bytes" -> deserialize_Bytes(T, t, s)
      [] T[1] = "str" -> deserialize_str(T, t, s)
      [] T[1] = "String" -> deserialize_String(T, t, s)
      [] T[1] = "Counter" -> deserialize_Counter(T, t, s)

(***************************************************************************)
(* DeserializeValue::deserialize.  Returns [res, calls]: the outcome and    *)
(* the implementations entered, in order.                                   *)
(***************************************************************************)
RECURSIVE deserialize(_, _, _)

\* Option<T> handing a NULL on to T
deserialize_Option_strict(T, t, s) ==
    LET inner == deserialize(Tail(T), t, s) IN
    [res |-> IF inner.res.tag = "Ok"
             THEN [inner.res EXCEPT !.wrap = <<"Some">> \o @]
             ELSE inner.res,
     calls |-> <<T>> \o inner.calls]

\* Option<T>: v.map(|_| T::deserialize(typ, v)).transpose()
deserialize_Option(T, t, s) ==
    IF ~s.present
    THEN [res |-> [Blank EXCEPT !.wrap = <<"None">>, !.kind = "none"],
          calls |-> <<T>>]
    ELSE LET inner == deserialize(Tail(T), t, s) IN
         [res |-> IF inner.res.tag = "Ok"
                  THEN [inner.res EXCEPT !.wrap = <<"Some">> \o @]
                  ELSE inner.res,
          calls |-> <<T>> \o inner.calls]

\* MaybeEmpty<T> without the is_empty test
deserialize_MaybeEmpty_noempty(T, t, s) ==
    LET val == ensure_not_null_slice(T, t, s) IN
    IF ~val.ok THEN [res |-> val.err, calls |-> <<T>>]
    ELSE LET inner == deserialize(Tail(T), t, s) IN
         [res |-> IF inner.res.tag = "Ok"
                  THEN [inner.res EXCEPT !.wrap = <<"Value">> \o @]
                  ELSE inner.res,
          calls |-> <<T>> \o inner.calls]

\* MaybeEmpty<T> taking NULL for Empty
deserialize_MaybeEmpty_nullempty(T, t, s) ==
    IF ~s.present \/ s.bytes = <<>>
    THEN [res |-> [Blank EXCEPT !.wrap = <<"Empty">>, !.kind = "none"],
          calls |-> <<T>>]
    ELSE LET inner == deserialize(Tail(T), t, s) IN
         [res |-> IF inner.res.tag = "Ok"
                  THEN [inner.res EXCEPT !.wrap = <<"Value">> \o @]
                  ELSE inner.res,
          calls |-> <<T>> \o inner.calls]

deserialize_MaybeEmpty(T, t, s) ==
    LET val == ensure_not_null_slice(T, t, s) IN
    IF ~val.ok THEN [res |-> val.err, calls |-> <<T>>]
    ELSE IF val.val = <<>>
         THEN [res |-> [Blank EXCEPT !.wrap = <<"Empty">>, !.kind = "none"],
               calls |-> <<T>>]
         ELSE LET inner == deserialize(Tail(T), t, s) IN
              [res |-> IF inner.res.tag = "Ok"
                       THEN [inner.res EXCEPT !.wrap = <<"Value">> \o @]
                       ELSE inner.res,
               calls |-> <<T>> \o inner.calls]

\* deserialize keeping the last value of each target type: a call whose
\* target another caller has already decoded is answered with that value
deserialize_shared(T, t, s) ==
    LET held == {i \in DOMAIN threads :
                    /\ threads[i].phase = "done"
                    /\ threads[i].op = "deserialize"
                    /\ threads[i].target = T} IN
    IF held # {}
    THEN [res |-> threads[CHOOSE i \in held : TRUE].result, calls |-> <<T>>]
    ELSE CASE T[1] = "Option" -> deserialize_Option(T, t, s)
           [] T[1] = "MaybeEmpty" -> deserialize_MaybeEmpty(T, t, s)
           [] T[1] = "CqlValue" ->
                 [res |-> deserialize_CqlValue(T, t, s), calls |-> <<T>>]
           [] OTHER -> [res |-> deserialize_strict(T, t, s), calls |-> <<T>>]

deserialize(T, t, s) ==
    CASE T[1] = "Option" -> deserialize_Option(T, t, s)
      [] T[1] = "MaybeEmpty" -> deserialize_MaybeEmpty(T, t, s)
      [] T[1] = "CqlValue" ->
            [res |-> deserialize_CqlValue(T, t, s), calls |-> <<T>>]
      [] OTHER -> [res |-> deserialize_strict(T, t, s), calls |-> <<T>>]

(***************************************************************************)
(* DeserializeValue::type_check.                                            *)
(***************************************************************************)
\* exact_type_check reporting only the first accepted type
exact_type_check_first(T, t, cqls) ==
    IF t \in Range(cqls) THEN Ok("unit") ELSE mk_typck_err(T, t, <<cqls[1]>>)

exact_type_check(T, t, cqls) ==
    IF t \in Range(cqls) THEN Ok("unit") ELSE mk_typck_err(T, t, cqls)

RECURSIVE type_check(_, _)

\* Option<T> accepting every descriptor
type_check_Option_any(T, t) == Ok("unit")

type_check_Option(T, t) == type_check(Tail(T), t)

type_check_MaybeEmpty(T, t) == type_check(Tail(T), t)

type_check_CqlValue(T, t) == Ok("unit")

type_check_strict(T, t) == exact_type_check(T, t, cql_list(T[1]))

type_check(T, t) ==
    CASE T[1] = "Option" -> type_check_Option(T, t)
      [] T[1] = "MaybeEmpty" -> type_check_MaybeEmpty(T, t)
      [] T[1] = "CqlValue" -> type_check_CqlValue(T, t)
      [] OTHER -> type_check_strict(T, t)

(***************************************************************************)
(* The cells explored.                                                      *)
(***************************************************************************)
IntWidths == {1, 2, 4, 8}

\* the integer type of each width
IntType(w) ==
    CASE w = 1 -> "i8" [] w = 2 -> "i16" [] w = 4 -> "i32" [] w = 8 -> "i64"

\* 0, 1, -1, the largest and the smallest value of the width, and 0x0102..
IntSample(w) ==
    {[neg |-> FALSE, mag |-> <<>>],
     [neg |-> FALSE, mag |-> <<1>>],
     [neg |-> TRUE, mag |-> <<1>>],
     [neg |-> FALSE, mag |-> <<127>> \o Fill(255, w - 1)],
     [neg |-> TRUE, mag |-> <<128>> \o Fill(0, w - 1)],
     [neg |-> FALSE, mag |-> [i \in 1..w |-> i]]}

\* the magnitude 2^i
Pow2Mag(i) == <<2 ^ (i % 8)>> \o Fill(0, i \div 8)

\* every i8; of the wider types the sample and, as the tests take them,
\* 1 << i and -(1 << i) for every bit i below the sign bit
IntValues(w) ==
    IF w = 1
    THEN {[neg |-> FALSE, mag |-> Strip(<<n>>)] : n \in 0..127}
         \cup {[neg |-> TRUE, mag |-> <<n>>] : n \in 1..128}
    ELSE IntSample(w)
         \cup {[neg |-> s, mag |-> Pow2Mag(i)] :
                  s \in BOOLEAN, i \in 0..(8 * w - 2)}

\* cells holding an encoded value under a descriptor its type accepts
EncodedCells ==
    UNION {{[typ |-> t, v |-> Some(to_be_bytes(x, w))] :
               x \in IntValues(w), t \in Range(cql_list(IntType(w)))} :
           w \in IntWidths}
    \cup {[typ |-> "Boolean", v |-> Some(<<b>>)] : b \in 0..255}

\* "cafe" with U+00E9, U+20AC, U+1F600; a truncated sequence, an overlong
\* form, a surrogate and a value above U+10FFFF
TextSample ==
    {<<99, 97, 102, 195, 169>>, <<226, 130, 172>>, <<240, 159, 152, 128>>,
     <<226, 130>>, <<192, 128>>, <<237, 160, 128>>, <<244, 144, 128, 128>>}

\* scale 2 and 123; scale -42 and -1; scale 2137 and no byte; three bytes
DecimalSample ==
    {<<0, 0, 0, 2, 123>>, <<255, 255, 255, 214, 255>>, <<0, 0, 8, 89>>,
     <<0, 0, 2>>}

\* the bytes of test_deserialize_bytes
BlobSample == {<<1, 5, 2, 4, 3>>}

Slots ==
    {None}
    \cup {Some(bs) : bs \in DecimalSample \cup BlobSample}
    \cup {Some(bs) : bs \in TextSample}
    \cup {Some(bs) : bs \in SeqsUpTo(ByteSample, MaxLen)}
    \cup {Some(Fill(b, n)) : b \in ByteSample, n \in (MaxLen + 1)..MaxWide}
    \cup UNION {{Some(to_be_bytes(x, w)) : x \in IntSample(w)} : w \in IntWidths}

(***************************************************************************)
(* The caller.                                                              *)
(***************************************************************************)
Init ==
    /\ typ \in ColumnTypes
    /\ v \in Slots
    /\ op = "idle"
    /\ target = <<>>
    /\ result = NoResult
    /\ calls = <<>>
    /\ row = <<>>
    /\ threads = <<>>
    /\ alone = <<>>

TypeCheck ==
    /\ op = "idle"
    /\ \E T \in Targets :
        /\ target' = T
        /\ result' = type_check(T, typ)
    /\ op' = "type_check"
    /\ calls' = <<>>
    /\ UNCHANGED <<typ, v, row, threads, alone>>

Deserialize ==
    /\ op = "idle"
    /\ \E T \in Targets :
        LET r == deserialize(T, typ, v) IN
        /\ target' = T
        /\ result' = r.res
        /\ calls' = r.calls
    /\ op' = "deserialize"
    /\ UNCHANGED <<typ, v, row, threads, alone>>

\* the call returns: the caller takes the result, the layer retains nothing
Return ==
    /\ op # "idle"
    /\ op' = "idle"
    /\ target' = <<>>
    /\ result' = NoResult
    /\ calls' = <<>>
    /\ UNCHANGED <<typ, v, row, threads, alone>>

Next == TypeCheck \/ Deserialize \/ Return

Spec == Init /\ [][Next]_vars

\* the caller over cells that hold encoded values
InitEncoded ==
    /\ \E c \in EncodedCells : typ = c.typ /\ v = c.v
    /\ op = "idle"
    /\ target = <<>>
    /\ result = NoResult
    /\ calls = <<>>
    /\ row = <<>>
    /\ threads = <<>>
    /\ alone = <<>>

SpecEncoded == InitEncoded /\ [][Next]_vars

(***************************************************************************)
(* Several callers over the cells of one row.                               *)
(***************************************************************************)
CallerIds == 1..NumCallers

Ops == {"type_check", "deserialize"}

\* cells of a row: present, null, empty, of several column types
CellSample ==
    {[typ |-> "Int", v |-> Some(to_be_bytes([neg |-> FALSE, mag |-> <<42>>],
                                             size_of("i32")))],
     [typ |-> "Int", v |-> None],
     [typ |-> "Text", v |-> Some(<<195, 169>>)],
     [typ |-> "Blob", v |-> Some(<<>>)]}

\* a row of two cells; the same cell may occur twice
Rows == {<<a, b>> : a \in CellSample, b \in CellSample}

\* the target types the callers ask for
CallTargets ==
    {<<"i32">>, <<"Option", "i32">>, <<"MaybeEmpty", "i32">>, <<"String">>}

Idle ==
    [phase |-> "idle", op |-> "none", cell |-> 0, target |-> <<>>,
     result |-> NoResult]

\* the outcome of one method of one target on one cell
Apply(o, T, c) ==
    IF o = "type_check" THEN type_check(T, c.typ)
    ELSE deserialize(T, c.typ, c.v).res

InitCallers ==
    /\ row \in Rows
    /\ threads = [i \in CallerIds |-> Idle]
    /\ alone = [c \in DOMAIN row |->
                  [o \in Ops |-> [T \in CallTargets |-> Apply(o, T, row[c])]]]
    /\ typ = row[1].typ
    /\ v = row[1].v
    /\ op = "idle"
    /\ target = <<>>
    /\ result = NoResult
    /\ calls = <<>>

\* caller i enters a method of a target on a cell of the row
Invoke(i) ==
    /\ threads[i].phase = "idle"
    /\ \E o \in Ops, c \in DOMAIN row, T \in CallTargets :
          threads' = [threads EXCEPT ![i] =
                         [phase |-> "running", op |-> o, cell |-> c,
                          target |-> T, result |-> NoResult]]
    /\ UNCHANGED <<typ, v, op, target, result, calls, row, alone>>

\* the method caller i is in runs to its end
Complete(i) ==
    /\ threads[i].phase = "running"
    /\ threads' = [threads EXCEPT ![i] =
                      [@ EXCEPT !.phase = "done",
                                !.result = Apply(threads[i].op,
                                                 threads[i].target,
                                                 row[threads[i].cell])]]
    /\ UNCHANGED <<typ, v, op, target, result, calls, row, alone>>

\* caller i takes the result
TakeResult(i) ==
    /\ threads[i].phase = "done"
    /\ threads' = [threads EXCEPT ![i] = Idle]
    /\ UNCHANGED <<typ, v, op, target, result, calls, row, alone>>

InvokeSome == \E i \in CallerIds : Invoke(i)

CompleteSome == \E i \in CallerIds : Complete(i)

TakeSome == \E i \in CallerIds : TakeResult(i)

NextCallers == InvokeSome \/ CompleteSome \/ TakeSome

SpecCallers == InitCallers /\ [][NextCallers]_vars

(***************************************************************************)
(* Properties.                                                              *)
(***************************************************************************)
Called(o, T) == op = o /\ target = T

\* the accepted tag set of each built-in strict type, as documented
AcceptedTags(b) ==
    CASE b = "bool" -> {"Boolean"}
      [] b = "i8" -> {"TinyInt"}
      [] b = "i16" -> {"SmallInt"}
      [] b = "i32" -> {"Int"}
      [] b = "i64" -> {"BigInt", "Counter"}
      [] b = "f32" -> {"Float"}
      [] b = "f64" -> {"Double"}
      [] b = "CqlVarint" -> {"Varint"}
      [] b = "CqlDecimal" -> {"Decimal"}
      [] b = "Counter" -> {"Counter"}
      [] b \in {"slice", "Vec", "Bytes"} -> {"Blob"}
      [] b \in {"str", "String"} -> {"Ascii", "Text"}

\* the documented width of each fixed-width type
FixedWidth(b) ==
    CASE b \in {"bool", "i8"} -> 1
      [] b = "i16" -> 2
      [] b \in {"i32", "f32"} -> 4
      [] b \in {"i64", "f64", "Counter"} -> 8

FixedWidthTypes == FixedNumeric \cup {"bool", "Counter"}

DeserErrorKinds ==
    {"GenericParseError", "ExpectedNonNull", "ByteLengthMismatch",
     "ExpectedAscii", "InvalidUtf8"}

\* C1: type_check of a built-in strict type succeeds exactly on its accepted
\* tags and otherwise fails with MismatchedType naming exactly those tags.
C1_TypeCheckExact ==
    \A b \in StrictTypes :
        Called("type_check", <<b>>) =>
            IF typ \in AcceptedTags(b)
            THEN result.tag = "Ok"
            ELSE /\ result.tag = "Err"
                 /\ result.kind = "MismatchedType"
                 /\ Range(result.expected) = AcceptedTags(b)

\* i64 refuses Int (no widening) and names both BigInt and Counter
C1_Witness ==
    /\ Called("type_check", <<"i64">>)
    /\ typ = "Int"
    /\ result.kind = "MismatchedType"
    /\ result.expected = <<"BigInt", "Counter">>

\* C2: deserialize of a built-in type that is no adapter, on a NULL slot,
\* returns the error ExpectedNonNull whatever the descriptor.
C2_NullRejected ==
    \A b \in BaseTypes :
        (Called("deserialize", <<b>>) /\ ~v.present) =>
            /\ result.tag = "Err"
            /\ result.kind = "ExpectedNonNull"

C2_Witness ==
    /\ Called("deserialize", <<"String">>)
    /\ typ = "Text"
    /\ v = None
    /\ result.kind = "ExpectedNonNull"

\* C3: Option<T> returns None on a NULL slot without entering T; on a
\* present slot it enters T on the same slot and returns Some of T's value
\* or T's error unchanged, never None.
C3_OptionAdapter ==
    (op = "deserialize" /\ target # <<>> /\ target[1] = "Option") =>
        IF ~v.present
        THEN /\ result.tag = "Ok"
             /\ result.wrap = <<"None">>
             /\ calls = <<target>>
        ELSE LET inner == deserialize(Tail(target), typ, v) IN
             /\ calls = <<target>> \o inner.calls
             /\ calls[2] = Tail(target)
             /\ inner.res.tag = "Ok" =>
                    /\ result.tag = "Ok"
                    /\ result.wrap = <<"Some">> \o inner.res.wrap
                    /\ [result EXCEPT !.wrap = Tail(@)] = inner.res
             /\ inner.res.tag = "Err" => result = inner.res
             /\ ~(result.tag = "Ok" /\ result.wrap = <<"None">>)

\* scenario: NULL, descriptor Int, target Option<i32>: None, and i32 not entered
C3_Witness ==
    /\ Called("deserialize", <<"Option", "i32">>)
    /\ typ = "Int"
    /\ v = None
    /\ result.tag = "Ok"
    /\ result.wrap = <<"None">>
    /\ calls = <<target>>

\* C4: MaybeEmpty<T> fails with ExpectedNonNull on a NULL slot, returns Empty
\* on a present slot of length zero without entering T, and otherwise enters
\* T and returns Value of T's value, or T's error.
C4_MaybeEmptyAdapter ==
    (op = "deserialize" /\ target # <<>> /\ target[1] = "MaybeEmpty") =>
        IF ~v.present
        THEN /\ result.tag = "Err"
             /\ result.kind = "ExpectedNonNull"
             /\ calls = <<target>>
        ELSE IF Len(v.bytes) = 0
        THEN /\ result.tag = "Ok"
             /\ result.wrap = <<"Empty">>
             /\ calls = <<target>>
        ELSE LET inner == deserialize(Tail(target), typ, v) IN
             /\ calls = <<target, Tail(target)>>
             /\ inner.res.tag = "Ok" =>
                    /\ result.tag = "Ok"
                    /\ result.wrap = <<"Value">>
                    /\ [result EXCEPT !.wrap = <<>>] = inner.res
             /\ inner.res.tag = "Err" => result = inner.res

\* scenario: present zero-length slot, descriptor Int, MaybeEmpty<i32>: Empty
C4_Witness ==
    /\ Called("deserialize", <<"MaybeEmpty", "i32">>)
    /\ typ = "Int"
    /\ v = Some(<<>>)
    /\ result.tag = "Ok"
    /\ result.wrap = <<"Empty">>
    /\ calls = <<target>>

\* C5: a fixed-width type fails with ByteLengthMismatch{expected = its width,
\* got = the slot's length} on every present slot of another length, the
\* empty one included, and never on a slot of exactly its width.
C5_ByteLengthMismatch ==
    \A b \in FixedWidthTypes :
        (Called("deserialize", <<b>>) /\ v.present) =>
            IF Len(v.bytes) # FixedWidth(b)
            THEN /\ result.tag = "Err"
                 /\ result.kind = "ByteLengthMismatch"
                 /\ result.size = FixedWidth(b)
                 /\ result.got = Len(v.bytes)
            ELSE result.kind # "ByteLengthMismatch"

\* nine bytes for an i64
C5_Witness ==
    /\ Called("deserialize", <<"i64">>)
    /\ v.present
    /\ Len(v.bytes) = 9
    /\ result.kind = "ByteLengthMismatch"
    /\ result.size = 8
    /\ result.got = 9

\* C6: deserialize returns v from the big-endian two's-complement encoding
\* of v at the type's width (0x01020304 from [1,2,3,4] under Int); a bool is
\* true exactly for a non-zero byte, so 1 gives true and 0 gives false.
C6_RoundTrip ==
    /\ \A w \in IntWidths :
          Called("deserialize", <<IntType(w)>>) =>
              \A x \in IntValues(w) :
                  v = Some(to_be_bytes(x, w))
                      => /\ result.tag = "Ok"
                         /\ result.kind = IntType(w)
                         /\ result.neg = x.neg
                         /\ result.mag = x.mag
    /\ (Called("deserialize", <<"i32">>) /\ v = Some(<<1, 2, 3, 4>>))
          => result.tag = "Ok" /\ ToInt(result) = 16909060
    /\ (Called("deserialize", <<"i8">>) /\ v.present /\ Len(v.bytes) = 1)
          => /\ result.tag = "Ok"
             /\ ToInt(result) = IF v.bytes[1] < 128 THEN v.bytes[1]
                                ELSE v.bytes[1] - 256
    /\ (Called("deserialize", <<"bool">>) /\ v.present /\ Len(v.bytes) = 1)
          => /\ result.tag = "Ok"
             /\ result.truth = (v.bytes[1] # 0)
             /\ v.bytes[1] = 1 => result.truth = TRUE
             /\ v.bytes[1] = 0 => result.truth = FALSE

\* the smallest i64, from 0x80 and seven zero bytes
C6_Witness ==
    /\ Called("deserialize", <<"i64">>)
    /\ typ = "BigInt"
    /\ v = Some(<<128, 0, 0, 0, 0, 0, 0, 0>>)
    /\ result.tag = "Ok"
    /\ result.neg
    /\ result.mag = <<128, 0, 0, 0, 0, 0, 0, 0>>

TextTypes == {"str", "String"}

HasHighByte(bs) == \E i \in 1..Len(bs) : bs[i] >= 128

\* C7 as stated: a text type fails with InvalidUtf8 on every present slot
\* that is not valid UTF-8, whatever the descriptor.
C7_InvalidUtf8AnyTag ==
    \A b \in TextTypes :
        (Called("deserialize", <<b>>) /\ v.present /\ ~from_utf8(v.bytes).valid)
            => /\ result.tag = "Err"
               /\ result.kind = "InvalidUtf8"

\* C7, amended: a text type fails on every present slot that is not valid
\* UTF-8, with ExpectedAscii under the descriptor Ascii (the ASCII check runs
\* first and invalid UTF-8 always holds a byte >= 0x80) and with InvalidUtf8
\* under every other descriptor.
C7_InvalidUtf8 ==
    \A b \in TextTypes :
        (Called("deserialize", <<b>>) /\ v.present /\ ~from_utf8(v.bytes).valid)
            => /\ result.tag = "Err"
               /\ result.kind =
                     IF typ = "Ascii" THEN "ExpectedAscii" ELSE "InvalidUtf8"

\* a lead byte without its continuation, under Ascii
C7_Witness ==
    /\ Called("deserialize", <<"str">>)
    /\ typ = "Ascii"
    /\ v = Some(<<65, 195>>)
    /\ result.kind = "ExpectedAscii"

\* C8: on valid UTF-8 holding a byte >= 0x80 a text type returns exactly
\* that string under Text and fails with ExpectedAscii under Ascii; on bytes
\* all <= 0x7F it returns the same string under Ascii and Text; &str and
\* String return equal content.
C8_TextDecode ==
    \A b \in TextTypes :
        (/\ Called("deserialize", <<b>>)
         /\ v.present
         /\ from_utf8(v.bytes).valid
         /\ typ \in {"Ascii", "Text"})
            => IF HasHighByte(v.bytes) /\ typ = "Ascii"
               THEN /\ result.tag = "Err"
                    /\ result.kind = "ExpectedAscii"
               ELSE /\ result.tag = "Ok"
                    /\ result.kind = b
                    /\ as_bytes(result.chars) = v.bytes
                    /\ \A t \in {"Ascii", "Text"} \ {typ} :
                          ~HasHighByte(v.bytes) =>
                              deserialize(<<b>>, t, v).res = result
                    /\ \A o \in TextTypes :
                          LET r == deserialize(<<o>>, typ, v).res IN
                          r.tag = "Ok" /\ r.chars = result.chars

\* scenario: "cafe" with U+00E9 under Text
C8_Witness ==
    /\ Called("deserialize", <<"str">>)
    /\ typ = "Text"
    /\ v = Some(<<99, 97, 102, 195, 169>>)
    /\ result.tag = "Ok"
    /\ result.chars = <<99, 97, 102, 233>>

\* an outcome without the descriptor its error context carries
Outcome(r) == [r EXCEPT !.cql_type = ""]

\* C9 as stated: deserialize of a built-in strict type under a descriptor
\* outside its accepted tag set returns an error, never a value.
C9_MismatchIsError ==
    \A b \in StrictTypes :
        (Called("deserialize", <<b>>) /\ typ \notin AcceptedTags(b))
            => result.tag = "Err"

\* C9, amended: under a descriptor outside its accepted tag set deserialize
\* of a built-in strict type returns what it returns under an accepted
\* descriptor (a text type: under Text): the value of the bytes, or a
\* deserialization error whose context names the descriptor given.
C9_DescriptorIgnored ==
    \A b \in StrictTypes :
        (Called("deserialize", <<b>>) /\ typ \notin AcceptedTags(b))
            => /\ \A t \in AcceptedTags(b) \ {"Ascii"} :
                     Outcome(result) = Outcome(deserialize(<<b>>, t, v).res)
               /\ result.tag \in {"Ok", "Err"}
               /\ result.tag = "Err" =>
                     /\ result.kind \in DeserErrorKinds
                     /\ result.cql_type = typ
                     /\ result.rust_name = <<b>>

\* an i32 read from four bytes under the descriptor Text
C9_Witness ==
    /\ Called("deserialize", <<"i32">>)
    /\ typ = "Text"
    /\ v = Some(<<1, 2, 3, 4>>)
    /\ result.tag = "Ok"
    /\ ToInt(result) = 16909060

\* two outcomes differ: in the value, in the error kind, or one is a value
\* and the other an error
Differs(a, b) ==
    \/ a.tag # b.tag
    \/ a.tag = "Err" /\ a.kind # b.kind
    \/ a.tag = "Ok" /\ Outcome(a) # Outcome(b)

\* C10: for every target and descriptor, deserialize on a NULL slot and on a
\* present zero-length slot differ.
C10_NullNotEmpty ==
    (op = "deserialize" /\ (~v.present \/ v.bytes = <<>>)) =>
        LET other == IF v.present THEN None ELSE Some(<<>>) IN
        Differs(result, deserialize(target, typ, other).res)

\* Option<MaybeEmpty<i32>> on a present zero-length slot: Some(Empty)
C10_Witness ==
    /\ Called("deserialize", <<"Option", "MaybeEmpty", "i32">>)
    /\ v = Some(<<>>)
    /\ result.tag = "Ok"
    /\ result.wrap = <<"Some", "Empty">>
    /\ deserialize(target, typ, None).res.wrap = <<"None">>

\* C11: CqlValue passes type_check under every descriptor; on a present
\* slot deserialize returns exactly the value of the generic parser for that
\* descriptor and those bytes, and when the parser fails it fails with
\* GenericParseError carrying the parser's error.
C11_DynamicFallback ==
    /\ Called("type_check", <<"CqlValue">>) => result = Ok("unit")
    /\ (Called("deserialize", <<"CqlValue">>) /\ v.present) =>
          LET parsed == deser_cql_value(typ, v.bytes) IN
          IF parsed.ok
          THEN result = parsed.val
          ELSE /\ result.tag = "Err"
               /\ result.kind = "GenericParseError"
               /\ result.parse_err = parsed.err
               /\ result.rust_name = <<"CqlValue">>
               /\ result.cql_type = typ

\* the parser refuses text that is not UTF-8
C11_Witness ==
    /\ Called("deserialize", <<"CqlValue">>)
    /\ typ = "Text"
    /\ v = Some(<<226, 130>>)
    /\ result.kind = "GenericParseError"
    /\ result.parse_err = "BadText"

\* C12: type_check of Option<T> and MaybeEmpty<T>, and of their nestings,
\* returns what T's type_check returns under the same descriptor: success
\* exactly when T succeeds, else T's MismatchedType error with T's expected
\* tags.
C12_WrappersDelegate ==
    (op = "type_check" /\ target # <<>>
        /\ target[1] \in {"Option", "MaybeEmpty"}) =>
        LET b == Last(target) IN
        /\ result = type_check(Tail(target), typ)
        /\ result = type_check(<<b>>, typ)
        /\ IF b = "CqlValue" \/ typ \in AcceptedTags(b)
           THEN result.tag = "Ok"
           ELSE /\ result.tag = "Err"
                /\ result.kind = "MismatchedType"
                /\ Range(result.expected) = AcceptedTags(b)
                /\ result.rust_name = <<b>>

\* Option<MaybeEmpty<i64>> refuses Int with i64's error
C12_Witness ==
    /\ Called("type_check", <<"Option", "MaybeEmpty", "i64">>)
    /\ typ = "Int"
    /\ result.kind = "MismatchedType"
    /\ result.expected = <<"BigInt", "Counter">>
    /\ result.rust_name = <<"i64">>

\* C13: on a present slot of four bytes or more CqlDecimal succeeds: the
\* scale is the first four bytes as a big-endian signed integer, the unscaled
\* integer the remaining bytes, possibly none ([0,0,0,2,0x7B]: 123, scale
\* 2); on a present slot of 0 to 3 bytes it fails with GenericParseError.
C13_Decimal ==
    (Called("deserialize", <<"CqlDecimal">>) /\ v.present) =>
        IF Len(v.bytes) >= 4
        THEN /\ result.tag = "Ok"
             /\ result.kind = "CqlDecimal"
             /\ to_be_bytes([neg |-> result.neg, mag |-> result.mag], 4)
                    = SubSeq(v.bytes, 1, 4)
             /\ result.neg = (v.bytes[1] >= 128)
             /\ result.bytes = SubSeq(v.bytes, 5, Len(v.bytes))
             /\ v.bytes = <<0, 0, 0, 2, 123>> =>
                    /\ ToInt(result) = 2
                    /\ ToInt(from_be_bytes(result.bytes)) = 123
             /\ v.bytes = <<255, 255, 255, 214, 255>> =>
                    /\ ToInt(result) = 0 - 42
                    /\ ToInt(from_be_bytes(result.bytes)) = 0 - 1
        ELSE /\ result.tag = "Err"
             /\ result.kind = "GenericParseError"

\* scenario: scale 2 and unscaled 123
C13_Witness ==
    /\ Called("deserialize", <<"CqlDecimal">>)
    /\ typ = "Decimal"
    /\ v = Some(<<0, 0, 0, 2, 123>>)
    /\ result.tag = "Ok"
    /\ ToInt(result) = 2
    /\ result.bytes = <<123>>

BlobTypes == {"slice", "Vec", "Bytes"}

\* C14: on a present slot of any length, zero included, &[u8], Vec<u8> and
\* Bytes succeed with the slot's bytes, all three alike, whatever the bytes
\* and the descriptor.
C14_Blob ==
    \A b \in BlobTypes :
        (Called("deserialize", <<b>>) /\ v.present) =>
            /\ result.tag = "Ok"
            /\ result.kind = b
            /\ result.bytes = v.bytes
            /\ Len(result.bytes) = Len(v.bytes)
            /\ \A o \in BlobTypes :
                  LET r == deserialize(<<o>>, typ, v).res IN
                  r.tag = "Ok" /\ r.bytes = result.bytes

\* the bytes of the test, as a Vec<u8>
C14_Witness ==
    /\ Called("deserialize", <<"Vec">>)
    /\ typ = "Blob"
    /\ v = Some(<<1, 5, 2, 4, 3>>)
    /\ result.tag = "Ok"
    /\ result.bytes = <<1, 5, 2, 4, 3>>

\* C15: on a present slot of any length CqlVarint succeeds and holds the
\* slot's bytes as they are, a sign-extended big-endian integer (a single
\* 0x00 is 0, a leading byte with the top bit set a negative value); no
\* width is checked, so ByteLengthMismatch never results.
C15_Varint ==
    (Called("deserialize", <<"CqlVarint">>) /\ v.present) =>
        /\ result.tag = "Ok"
        /\ result.kind = "CqlVarint"
        /\ result.bytes = v.bytes
        /\ result.kind # "ByteLengthMismatch"
        /\ v.bytes = <<0>> =>
              from_be_bytes(result.bytes) = [neg |-> FALSE, mag |-> <<>>]
        /\ (v.bytes # <<>> /\ v.bytes[1] >= 128) =>
              /\ from_be_bytes(result.bytes).neg
              /\ to_be_bytes(from_be_bytes(result.bytes), Len(v.bytes))
                    = v.bytes

\* nine bytes of 0xFF: -1, wider than any fixed-width integer
C15_Witness ==
    /\ Called("deserialize", <<"CqlVarint">>)
    /\ typ = "Varint"
    /\ v = Some(Fill(255, 9))
    /\ result.tag = "Ok"
    /\ result.bytes = Fill(255, 9)
    /\ from_be_bytes(result.bytes) = [neg |-> TRUE, mag |-> <<1>>]

Done(i) == i \in DOMAIN threads /\ threads[i].phase = "done"

====
